---- MODULE Spec2Model ----
(***************************************************************************)
(* A model of src/lib/api.ts: the text normaliser (extractKeywords,        *)
(* cleanDescription, formatDescription), the retry policy                  *)
(* (retryWithBackoff) and the two public entry points built on them        *)
(* (generateLLMMetadata, analyzeContent).                                  *)
(*                                                                         *)
(* JavaScript strings are TLA+ strings; each regular expression of the     *)
(* source is given by the matches the JavaScript engine finds for it       *)
(* (leftmost match, greedy quantifiers, global replacement).               *)
(***************************************************************************)
EXTENDS Integers, Sequences, FiniteSets, TLC

----------------------------------------------------------------------------
(* Characters and character classes of the regular expressions.            *)

Char(s, i) == SubSeq(s, i, i)

\* \s of a JavaScript regular expression (the members the model's inputs use)
Whitespace == {" ", "\n", "\t"}

\* \d
Digits == {"0", "1", "2", "3", "4", "5", "6", "7", "8", "9"}

UpperLetters ==
  {"A", "B", "C", "D", "E", "F", "G", "H", "I", "J", "K", "L", "M", "N",
   "O", "P", "Q", "R", "S", "T", "U", "V", "W", "X", "Y", "Z"}
LowerLetters ==
  {"a", "b", "c", "d", "e", "f", "g", "h", "i", "j", "k", "l", "m", "n",
   "o", "p", "q", "r", "s", "t", "u", "v", "w", "x", "y", "z"}

\* \w
WordChars == UpperLetters \cup LowerLetters \cup Digits \cup {"_"}

\* the lower-case letter of each upper-case letter
LowerOf ==
  "A" :> "a" @@ "B" :> "b" @@ "C" :> "c" @@ "D" :> "d" @@ "E" :> "e"
  @@ "F" :> "f" @@ "G" :> "g" @@ "H" :> "h" @@ "I" :> "i" @@ "J" :> "j"
  @@ "K" :> "k" @@ "L" :> "l" @@ "M" :> "m" @@ "N" :> "n" @@ "O" :> "o"
  @@ "P" :> "p" @@ "Q" :> "q" @@ "R" :> "r" @@ "S" :> "s" @@ "T" :> "t"
  @@ "U" :> "u" @@ "V" :> "v" @@ "W" :> "w" @@ "X" :> "x" @@ "Y" :> "y"
  @@ "Z" :> "z"

LowerChar(c) == IF c \in UpperLetters THEN LowerOf[c] ELSE c

\* the concatenation of pieces[lo..hi], halving the range so that the
\* evaluation depth is logarithmic in the length
RECURSIVE ConcatRange(_, _, _)
ConcatRange(pieces, lo, hi) ==
  IF lo > hi THEN ""
  ELSE IF lo = hi THEN pieces[lo]
  ELSE LET mid == (lo + hi) \div 2
       IN  ConcatRange(pieces, lo, mid) \o ConcatRange(pieces, mid + 1, hi)

Concat(pieces) == ConcatRange(pieces, 1, Len(pieces))

\* the members of a finite set of numbers, in increasing order
SortedSeq(S) ==
  [k \in 1..Cardinality(S) |->
     CHOOSE i \in S : Cardinality({j \in S : j <= i}) = k]

\* String.prototype.toLowerCase
toLowerCase(s) == Concat([i \in 1..Len(s) |-> LowerChar(Char(s, i))])

InClass(s, i, class) == i >= 1 /\ i <= Len(s) /\ Char(s, i) \in class

\* the end of a greedy class* tried at i: the first index at or after i
\* whose character is not in class (Len(s) + 1 when there is none)
RunEnd(s, i, class) ==
  CHOOSE j \in i..(Len(s) + 1) :
    /\ \A k \in i..(j - 1) : Char(s, k) \in class
    /\ ~InClass(s, j, class)

\* the first index of the run of class characters that ends just before i
RunStart(s, i, class) ==
  i - (CHOOSE n \in 0..(i - 1) :
         /\ \A k \in (i - n)..(i - 1) : Char(s, k) \in class
         /\ ~InClass(s, i - n - 1, class))

\* String.prototype.trim
Trim(s) ==
  LET from == RunEnd(s, 1, Whitespace)
      to == RunStart(s, Len(s) + 1, Whitespace) - 1
  IN  IF from > Len(s) THEN "" ELSE SubSeq(s, from, to)

\* Array.prototype.join
Join(parts, sep) ==
  Concat([k \in 1..Len(parts) |-> IF k = 1 THEN parts[k] ELSE sep \o parts[k]])

\* Array.prototype.slice(0, n)
Slice0(parts, n) == SubSeq(parts, 1, IF Len(parts) < n THEN Len(parts) ELSE n)

\* Array.prototype.filter(Boolean) on strings: the non-empty ones, in order
NonEmpty(parts) == SelectSeq(parts, LAMBDA p : p # "")

\* String.prototype.split(re) for a regular expression that matches no empty
\* string: starts[k] is the index where the k-th match begins and ends[k]
\* the index just after it
SplitAt(s, starts, ends) ==
  [k \in 1..(Len(starts) + 1) |->
     SubSeq(s, IF k = 1 THEN 1 ELSE ends[k - 1],
               IF k = Len(starts) + 1 THEN Len(s) ELSE starts[k] - 1)]

----------------------------------------------------------------------------
(* extractKeywords, src/lib/api.ts:13-24                                   *)

commonWords ==
  {"and", "the", "for", "in", "to", "of", "a", "with", "by", "on", "your"}

\* .replace(/[^\w\s]/g, '')
StripNonWord(s) ==
  Concat([i \in 1..Len(s) |->
            IF Char(s, i) \in WordChars \cup Whitespace THEN Char(s, i) ELSE ""])

\* .split(/\s+/): the pieces between the whitespace runs, the empty pieces
\* before a leading run and after a trailing run included
SplitWhitespace(s) ==
  LET starts == SortedSeq({i \in 1..Len(s) : /\ Char(s, i) \in Whitespace
                                             /\ ~InClass(s, i - 1, Whitespace)})
      ends == [k \in 1..Len(starts) |-> RunEnd(s, starts[k], Whitespace)]
  IN  SplitAt(s, starts, ends)

\* Array.from(new Set(words)): the first occurrence of each word, in order
Unique(words) ==
  LET first == {i \in 1..Len(words) : \A j \in 1..(i - 1) : words[j] # words[i]}
      order == SortedSeq(first)
  IN  [k \in 1..Len(order) |-> words[order[k]]]

MinWordLength == 3
TopKeywords == 5

\* KeepWord with >= for >
KeepWordFromThree(word) == Len(word) >= MinWordLength /\ word \notin commonWords

\* word => word.length > 3 && !commonWords.has(word)
KeepWord(word) == Len(word) > MinWordLength /\ word \notin commonWords

extractKeywords(content) ==
  LET stripped == StripNonWord(toLowerCase(content))
      words == SelectSeq(SplitWhitespace(stripped), KeepWord)
      uniqueWords == Unique(words)
  IN  Join(Slice0(uniqueWords, TopKeywords), ", ")

----------------------------------------------------------------------------
(* cleanDescription, src/lib/api.ts:26-36                                  *)
(* Each global replacement is given by what it puts in the place of each   *)
(* character: a match's replacement at the match's first character and     *)
(* nothing at its other characters; a character in no match is kept.       *)

\* .replace(/\d+\.\s+/g, ''): a match is a whole digit run, a period and the
\* whole whitespace run (of at least one character) after it
RemoveNumbered(s) ==
  LET Dot(i) == /\ InClass(s, i, {"."})
                /\ InClass(s, i - 1, Digits)
                /\ InClass(s, i + 1, Whitespace)
      Removed(i) ==
        \/ Char(s, i) \in Digits /\ Dot(RunEnd(s, i, Digits))
        \/ Dot(i)
        \/ Char(s, i) \in Whitespace /\ Dot(RunStart(s, i, Whitespace) - 1)
  IN  Concat([i \in 1..Len(s) |-> IF Removed(i) THEN "" ELSE Char(s, i)])

ListIntroHead == "here are "
ListIntroTail == " tips for"

\* /here are \d+ tips for/i tried at i: the index just after the match, or 0
ListIntroEnd(s, i) ==
  LET h == i + Len(ListIntroHead)
      d == RunEnd(s, h, Digits)
      t == d + Len(ListIntroTail)
  IN  IF /\ InClass(s, i, {"h", "H"})
         /\ h <= Len(s)
         /\ toLowerCase(SubSeq(s, i, h - 1)) = ListIntroHead
         /\ d > h
         /\ t - 1 <= Len(s)
         /\ toLowerCase(SubSeq(s, d, t - 1)) = ListIntroTail
      THEN t ELSE 0

\* .replace(/here are \d+ tips for/gi, 'Discover essential tips for')
ReplaceListIntro(s) ==
  LET starts == {i \in 1..Len(s) : ListIntroEnd(s, i) > 0}
      Inside(i) == \E j \in starts : j < i /\ i < ListIntroEnd(s, j)
  IN  Concat([i \in 1..Len(s) |->
                IF i \in starts THEN "Discover essential tips for"
                ELSE IF Inside(i) THEN "" ELSE Char(s, i)])

\* .replace(/\s+/g, ' ')
CollapseWhitespace(s) ==
  Concat([i \in 1..Len(s) |->
            IF Char(s, i) \notin Whitespace THEN Char(s, i)
            ELSE IF InClass(s, i - 1, Whitespace) THEN "" ELSE " "])

\* .replace(/\s*\n\s*/g, ' '): a match is a whole whitespace run that holds
\* a line break
NormalizeLineBreaks(s) ==
  LET HasBreak(i) ==
        \E k \in RunStart(s, i, Whitespace)..(RunEnd(s, i, Whitespace) - 1) :
          Char(s, k) = "\n"
  IN  Concat([i \in 1..Len(s) |->
                IF Char(s, i) \in Whitespace /\ HasBreak(i)
                THEN (IF InClass(s, i - 1, Whitespace) THEN "" ELSE " ")
                ELSE Char(s, i)])

\* .replace(/\s*c\s*/g, rep) for a punctuation mark c: a match is the
\* whitespace run before c, c itself and the whitespace run after it
ReplaceAround(s, c, rep) ==
  LET Mark(i) == InClass(s, i, {c})
      Taken(i) == \/ Mark(RunEnd(s, i, Whitespace))
                  \/ Mark(RunStart(s, i, Whitespace) - 1)
  IN  Concat([i \in 1..Len(s) |->
                IF Char(s, i) = c THEN rep
                ELSE IF Char(s, i) \in Whitespace /\ Taken(i) THEN ""
                ELSE Char(s, i)])

cleanDescription(text) ==
  LET s1 == RemoveNumbered(text)
      s2 == ReplaceListIntro(s1)
      s3 == CollapseWhitespace(s2)
      s4 == NormalizeLineBreaks(s3)
      s5 == ReplaceAround(s4, ".", ". ")
      s6 == ReplaceAround(s5, ",", ", ")
      s7 == CollapseWhitespace(s6)
  IN  Trim(s7)

----------------------------------------------------------------------------
(* formatDescription, src/lib/api.ts:39-51                                 *)

Terminators == {".", "?", "!"}

\* .split(/(?:\.|\?|\!)\s+/): a match is a terminator and the whole
\* whitespace run (of at least one character) after it
SplitSentences(s) ==
  LET starts == SortedSeq({i \in 1..Len(s) : /\ Char(s, i) \in Terminators
                                             /\ InClass(s, i + 1, Whitespace)})
      ends == [k \in 1..Len(starts) |-> RunEnd(s, starts[k] + 1, Whitespace)]
  IN  SplitAt(s, starts, ends)

MapTrim(parts) == [k \in 1..Len(parts) |-> Trim(parts[k])]

MaxSentences == 2

formatDescription(description) ==
  IF description = "" THEN ""
  ELSE LET cleaned == cleanDescription(description)
           parts == SplitSentences(cleaned)
           firstTwoParts ==
             Join(NonEmpty(MapTrim(Slice0(parts, MaxSentences))), ". ")
       IN  IF Len(firstTwoParts) > 0 THEN firstTwoParts \o "." ELSE cleaned

----------------------------------------------------------------------------
(* The remote client, hf.textGeneration (src/lib/api.ts:125 and 190), is   *)
(* the environment.  An attempt either rejects or resolves to a response.   *)
(* A response is given by its generated_text and by what JSON.parse makes   *)
(* of that text:                                                            *)
(*   kind "text"    a string that is no JSON (JSON.parse throws)            *)
(*   kind "missing" no generated_text at all (undefined)                    *)
(*   kind "null"    the JSON text null                                      *)
(*   kind "scalar"  a JSON number, string or boolean                        *)
(*   kind "object"  a JSON object; title, description and keywords are      *)
(*                  the values of its properties of those names             *)
(* A JSON value is [t |-> its type, s |-> its text].                        *)

Absent == [t |-> "undefined", s |-> ""]
JsonString(s) == [t |-> "string", s |-> s]
JsonNumber(s) == [t |-> "number", s |-> s]

\* JavaScript truthiness, as !value tests it
Truthy(v) ==
  CASE v.t = "string" -> v.s # ""
    [] v.t = "number" -> v.s # "0"
    [] OTHER -> FALSE

Response(kind, text, title, description, keywords) ==
  [kind |-> kind, text |-> text, title |-> title,
   description |-> description, keywords |-> keywords]

NoResponse == Response("none", "", Absent, Absent, Absent)

GoodTitle == JsonString(" Healthy Eating Guide ")
GoodDescription ==
  JsonString("Here are 10 tips for healthy eating: 1. Eat more vegetables 2. Choose whole grains 3. Limit sugar")
GoodKeywords == JsonString("food, diet ")

\* what a property of the parsed object may hold besides a good value: no
\* value, the empty string, a blank string, zero, a number
OtherValues ==
  {Absent, JsonString(""), JsonString("  "), JsonNumber("0"), JsonNumber("7")}

GeneratedTexts == {"", "Sorry, no JSON.", "Add keywords.\n\nUse header tags.\n"}

\* the objects with at most one property that is not good
MetadataObjects ==
  {Response("object", "", GoodTitle, GoodDescription, GoodKeywords)}
  \cup {Response("object", "", v, GoodDescription, GoodKeywords) : v \in OtherValues}
  \cup {Response("object", "", GoodTitle, v, GoodKeywords) : v \in OtherValues}
  \cup {Response("object", "", GoodTitle, GoodDescription, v) : v \in OtherValues}

MetadataResponses ==
  {Response("text", g, Absent, Absent, Absent) : g \in GeneratedTexts}
  \cup {Response("missing", "", Absent, Absent, Absent),
        Response("null", "null", Absent, Absent, Absent),
        Response("scalar", "42", Absent, Absent, Absent)}
  \cup MetadataObjects

AnalysisResponses ==
  {Response("text", g, Absent, Absent, Absent) : g \in GeneratedTexts}
  \cup {Response("missing", "", Absent, Absent, Absent)}

PlainValues ==
  {Response("text", g, Absent, Absent, Absent) : g \in {"first", "second"}}

\* the error an attempt of the client rejects with: every attempt's own
ClientError(attempt) == [message |-> "client failure", attempt |-> attempt]
MaxRetriesError == [message |-> "Max retries reached", attempt |-> -1]
NoError == [message |-> "", attempt |-> -1]

----------------------------------------------------------------------------
(* Inputs.                                                                 *)

RECURSIVE TokenStrings(_, _)
TokenStrings(tokens, n) ==
  IF n = 0 THEN {""}
  ELSE LET shorter == TokenStrings(tokens, n - 1)
       IN  shorter \cup {s \o t : s \in shorter, t \in tokens}

MaxContentTokens == 1
ContentTokens == {"Healthy", "It", ".", " ", "10", "?"}
ExampleContent == "Healthy eating matters. It helps you."
SampleContents ==
  {ExampleContent, "Top 10. Then  more, and more", ". It is so", "Eat well"}
Contents == TokenStrings(ContentTokens, MaxContentTokens) \cup SampleContents
Urls == {"", "http://x"}

DefaultMaxRetries == 3
DefaultBaseDelay == 1000

MaxRetriesTried == 4
BaseDelays == {DefaultBaseDelay, 250}

MaxTextTokens == 3
TextTokens == {"Healthy", " well", " with", "Eat", ".", " ", ",", "1", "?"}
ExampleSentence == "The quick brown fox jumps over the lazy dog"
SampleTexts ==
  {ExampleSentence,
   "Discover essential healthy eating strategies for overall well-being. Learn about balanced nutrition and smart food choices for a healthier lifestyle.",
   "Explore comprehensive tips for maintaining a healthy diet, including nutrition guidance and practical meal planning strategies.",
   "Here are 10 tips for healthy eating: 1. Eat more vegetables 2. Choose whole grains 3. Limit sugar",
   "Eat well. Sleep well.",
   "Eat well. Sleep well. Eat well again and again."}
Texts == TokenStrings(TextTokens, MaxTextTokens) \cup SampleTexts

----------------------------------------------------------------------------
(* State.  id (Date.now()) of PageMetadata is left out: nothing reads it.   *)

VARIABLES
  op,          \* the function called: its name
  url,         \* generateLLMMetadata's url
  content,     \* generateLLMMetadata's and analyzeContent's content
  maxRetries,  \* retryWithBackoff's maxRetries
  baseDelay,   \* retryWithBackoff's baseDelay
  pc,          \* "loop", "sleeping", "settled" (retryWithBackoff ended), "done"
  i,           \* retryWithBackoff's loop counter
  calls,       \* how many times fn, the client, has been invoked
  sleeps,      \* the delays of the setTimeout calls so far, in order
  failed,      \* the errors of the attempts that rejected so far, in order
  response,    \* what the attempt that resolved resolved to
  settled,     \* how retryWithBackoff ended: "pending", "value" or "error"
  error,       \* the error retryWithBackoff threw
  outcome,     \* how the call of op ended: "pending", "returned" or "threw"
  path,        \* the return statement reached: "model", "inner", "outer", ...
  page,        \* the PageMetadata generateLLMMetadata returned
  suggestions, \* the list analyzeContent returned
  text,        \* the argument of a text normaliser call
  out          \* the results of the text normaliser calls so far, in order

vars ==
  <<op, url, content, maxRetries, baseDelay, pc, i, calls, sleeps, failed,
    response, settled, error, outcome, path, page, suggestions, text, out>>

callVars == <<op, url, content, maxRetries, baseDelay>>
textVars == <<text, out>>

PageMetadata(u, title, description, keywords) ==
  [url |-> u, title |-> title, description |-> description,
   keywords |-> keywords]

NoPage == PageMetadata("", "", "", "")

Start(o, u, c, m, b) ==
  /\ op = o /\ url = u /\ content = c /\ maxRetries = m /\ baseDelay = b
  /\ pc = "loop" /\ i = 0 /\ calls = 0 /\ sleeps = <<>> /\ failed = <<>>
  /\ response = NoResponse /\ settled = "pending" /\ error = NoError
  /\ outcome = "pending" /\ path = "" /\ page = NoPage /\ suggestions = <<>>
  /\ text = "" /\ out = <<>>

Init ==
  \/ \E u \in Urls, c \in Contents :
       Start("generateLLMMetadata", u, c, DefaultMaxRetries, DefaultBaseDelay)
  \/ \E c \in Contents :
       Start("analyzeContent", "", c, DefaultMaxRetries, DefaultBaseDelay)
  \/ \E m \in 0..MaxRetriesTried, b \in BaseDelays :
       Start("retryWithBackoff", "", "", m, b)

----------------------------------------------------------------------------
(* retryWithBackoff, src/lib/api.ts:64-79                                  *)

RECURSIVE Pow2(_)
Pow2(n) == IF n = 0 THEN 1 ELSE 2 * Pow2(n - 1)

\* BackoffDelay growing by baseDelay at each attempt instead of doubling
BackoffDelayLinear(b, n) == b * (n + 1)

\* const delay = baseDelay * Math.pow(2, i)
BackoffDelay(b, n) == b * Pow2(n)

\* LastAttempt compared with maxRetries instead of maxRetries - 1
LastAttemptOffByOne(n, m) == n = m

\* LastAttempt with the rethrow left out
LastAttemptNever(n, m) == FALSE

\* if (i === maxRetries - 1) throw error
LastAttempt(n, m) == n = m - 1

Responses ==
  CASE op = "generateLLMMetadata" -> MetadataResponses
    [] op = "analyzeContent" -> AnalysisResponses
    [] OTHER -> PlainValues

\* return await fn(), fn resolving to r
AttemptResolves(r) ==
  /\ pc = "loop" /\ i < maxRetries
  /\ calls' = calls + 1
  /\ response' = r
  /\ settled' = "value"
  /\ pc' = "settled"
  /\ UNCHANGED <<callVars, i, sleeps, failed, error, outcome, path, page,
                 suggestions, textVars>>

\* await fn() rejecting: the catch block, up to its await
AttemptRejects ==
  /\ pc = "loop" /\ i < maxRetries
  /\ calls' = calls + 1
  /\ failed' = Append(failed, ClientError(i))
  /\ IF LastAttempt(i, maxRetries)
     THEN /\ error' = ClientError(i)
          /\ settled' = "error"
          /\ pc' = "settled"
          /\ UNCHANGED sleeps
     ELSE /\ sleeps' = Append(sleeps, BackoffDelay(baseDelay, i))
          /\ pc' = "sleeping"
          /\ UNCHANGED <<error, settled>>
  /\ UNCHANGED <<callVars, i, response, outcome, path, page, suggestions,
                 textVars>>

\* the timer fires: i++
Wake ==
  /\ pc = "sleeping"
  /\ i' = i + 1
  /\ pc' = "loop"
  /\ UNCHANGED <<callVars, calls, sleeps, failed, response, settled, error,
                 outcome, path, page, suggestions, textVars>>

\* the loop ends: throw new Error('Max retries reached')
LoopExit ==
  /\ pc = "loop" /\ ~(i < maxRetries)
  /\ error' = MaxRetriesError
  /\ settled' = "error"
  /\ pc' = "settled"
  /\ UNCHANGED <<callVars, i, calls, sleeps, failed, response, outcome, path,
                 page, suggestions, textVars>>

\* a direct caller of retryWithBackoff gets what it returned or threw
RetryCallerResumes ==
  /\ pc = "settled" /\ op = "retryWithBackoff"
  /\ outcome' = IF settled = "value" THEN "returned" ELSE "threw"
  /\ path' = "retry"
  /\ pc' = "done"
  /\ UNCHANGED <<callVars, i, calls, sleeps, failed, response, settled, error,
                 page, suggestions, textVars>>

----------------------------------------------------------------------------
(* generateLLMMetadata, src/lib/api.ts:98-180                              *)

\* content.split('.')[0]
MainTopic(c) ==
  LET dots == {k \in 1..Len(c) : Char(c, k) = "."}
  IN  IF dots = {} THEN c
      ELSE SubSeq(c, 1, (CHOOSE k \in dots : \A j \in dots : k <= j) - 1)

DiscoverTemplate(topic) ==
  "Discover comprehensive insights about " \o toLowerCase(topic)
    \o ". Get expert guidance and practical strategies for better results."

ExploreTemplate(topic) ==
  "Explore essential information about " \o toLowerCase(topic)
    \o ". Find practical tips and expert recommendations for optimal outcomes."

Returned(p) == [kind |-> "returned", page |-> p]
Threw == [kind |-> "threw", page |-> NoPage]

\* the inner try block, lines 138-152: JSON.parse, the validation and the
\* return statement; every exception it can raise ends it with "threw"
TryParse(u, r) ==
  IF r.kind \in {"text", "missing"} THEN Threw         \* SyntaxError
  ELSE IF r.kind = "null" THEN Threw                   \* TypeError: null.title
  ELSE IF ~(Truthy(r.title) /\ Truthy(r.description) /\ Truthy(r.keywords))
       THEN Threw                                      \* Incomplete metadata
  ELSE IF \E v \in {r.title, r.description, r.keywords} : v.t # "string"
       THEN Threw                                      \* TypeError: no trim/replace
  ELSE Returned(PageMetadata(u, Trim(r.title.s),
                             formatDescription(r.description.s),
                             Trim(r.keywords.s)))

\* InnerFallback without the trim of the title
InnerFallbackUntrimmed(u, c) ==
  PageMetadata(u, MainTopic(c),
               formatDescription(DiscoverTemplate(MainTopic(c))),
               extractKeywords(c))

\* the inner catch block, lines 153-166
InnerFallback(u, c) ==
  PageMetadata(u, Trim(MainTopic(c)),
               formatDescription(DiscoverTemplate(MainTopic(c))),
               extractKeywords(c))

\* OuterFallback with the inner catch block's template
OuterFallbackDiscover(u, c) ==
  PageMetadata(u, Trim(MainTopic(c)),
               formatDescription(DiscoverTemplate(MainTopic(c))),
               extractKeywords(c))

\* the outer catch block, lines 167-179
OuterFallback(u, c) ==
  PageMetadata(u, Trim(MainTopic(c)),
               formatDescription(ExploreTemplate(MainTopic(c))),
               extractKeywords(c))

CatchInner(u, c) == Returned(InnerFallback(u, c))
\* CatchOuter that logs and throws the error again
CatchOuterRethrows(u, c) == Threw


CatchOuter(u, c) == Returned(OuterFallback(u, c))

\* retryWithBackoff returned: the inner try block and, if it throws, the
\* inner catch block
GenerateResumes ==
  /\ pc = "settled" /\ op = "generateLLMMetadata" /\ settled = "value"
  /\ \E tried \in {TryParse(url, response)} :
       IF tried.kind = "threw"
       THEN \E ended \in {CatchInner(url, content)} :
              outcome' = ended.kind /\ page' = ended.page /\ path' = "inner"
       ELSE outcome' = tried.kind /\ page' = tried.page /\ path' = "model"
  /\ pc' = "done"
  /\ UNCHANGED <<callVars, i, calls, sleeps, failed, response, settled, error,
                 suggestions, textVars>>

\* retryWithBackoff threw: the outer catch block
GenerateCatches ==
  /\ pc = "settled" /\ op = "generateLLMMetadata" /\ settled = "error"
  /\ \E ended \in {CatchOuter(url, content)} :
       outcome' = ended.kind /\ page' = ended.page
  /\ path' = "outer"
  /\ pc' = "done"
  /\ UNCHANGED <<callVars, i, calls, sleeps, failed, response, settled, error,
                 suggestions, textVars>>

----------------------------------------------------------------------------
(* analyzeContent, src/lib/api.ts:182-211                                  *)

FixedSuggestions ==
  <<"Ensure your content includes relevant keywords.",
    "Write a compelling meta description.",
    "Use header tags (H1, H2, etc.) to structure your content.",
    "Include internal and external links where appropriate.",
    "Optimize your images with alt text and descriptive file names.">>

\* .split('\n')
SplitLines(s) ==
  LET starts == SortedSeq({k \in 1..Len(s) : Char(s, k) = "\n"})
      ends == [k \in 1..Len(starts) |-> starts[k] + 1]
  IN  SplitAt(s, starts, ends)

\* SuggestionLines without .filter(Boolean)
SuggestionLinesUnfiltered(s) == SplitLines(s)

\* response.generated_text.split('\n').filter(Boolean)
SuggestionLines(s) == NonEmpty(SplitLines(s))

\* retryWithBackoff returned: line 200 and, if generated_text is undefined
\* (TypeError), the catch block
AnalyzeResumes ==
  /\ pc = "settled" /\ op = "analyzeContent" /\ settled = "value"
  /\ IF response.kind = "missing"
     THEN suggestions' = FixedSuggestions /\ path' = "fixed"
     ELSE suggestions' = SuggestionLines(response.text) /\ path' = "model"
  /\ outcome' = "returned"
  /\ pc' = "done"
  /\ UNCHANGED <<callVars, i, calls, sleeps, failed, response, settled, error,
                 page, textVars>>

\* retryWithBackoff threw: the catch block
AnalyzeCatches ==
  /\ pc = "settled" /\ op = "analyzeContent" /\ settled = "error"
  /\ suggestions' = FixedSuggestions
  /\ path' = "fixed"
  /\ outcome' = "returned"
  /\ pc' = "done"
  /\ UNCHANGED <<callVars, i, calls, sleeps, failed, response, settled, error,
                 page, textVars>>

----------------------------------------------------------------------------
Next ==
  \/ \E r \in Responses : AttemptResolves(r)
  \/ AttemptRejects
  \/ Wake
  \/ LoopExit
  \/ RetryCallerResumes
  \/ GenerateResumes
  \/ GenerateCatches
  \/ AnalyzeResumes
  \/ AnalyzeCatches

Spec == Init /\ [][Next]_vars

----------------------------------------------------------------------------
(* The text normaliser on its own: one of its functions applied to a text, *)
(* and formatDescription applied again to its own result.                  *)

InitText ==
  /\ text \in Texts /\ out = <<>>
  /\ op = "" /\ url = "" /\ content = "" /\ maxRetries = 0 /\ baseDelay = 0
  /\ pc = "text" /\ i = 0 /\ calls = 0 /\ sleeps = <<>> /\ failed = <<>>
  /\ response = NoResponse /\ settled = "pending" /\ error = NoError
  /\ outcome = "pending" /\ path = "" /\ page = NoPage /\ suggestions = <<>>

machineVars ==
  <<url, content, maxRetries, baseDelay, pc, i, calls, sleeps, failed,
    response, settled, error, outcome, path, page, suggestions>>

CallExtractKeywords ==
  /\ pc = "text" /\ op = ""
  /\ op' = "extractKeywords"
  /\ out' = <<extractKeywords(text)>>
  /\ UNCHANGED <<machineVars, text>>

CallFormatDescription ==
  /\ pc = "text" /\ op = ""
  /\ op' = "formatDescription"
  /\ out' = <<formatDescription(text)>>
  /\ UNCHANGED <<machineVars, text>>

FormatAgain ==
  /\ pc = "text" /\ op = "formatDescription" /\ Len(out) = 1
  /\ out' = Append(out, formatDescription(out[1]))
  /\ UNCHANGED <<machineVars, op, text>>

NextText == CallExtractKeywords \/ CallFormatDescription \/ FormatAgain

SpecText == InitText /\ [][NextText]_vars

----------------------------------------------------------------------------
(* Properties.                                                             *)

StartsWith(s, prefix) ==
  Len(s) >= Len(prefix) /\ SubSeq(s, 1, Len(prefix)) = prefix

RECURSIVE SumSeq(_)
SumSeq(q) == IF q = <<>> THEN 0 ELSE Head(q) + SumSeq(Tail(q))

GenerateDone == op = "generateLLMMetadata" /\ pc = "done"
AnalyzeDone == op = "analyzeContent" /\ pc = "done"

\* every attempt of the client failed
AllAttemptsFailed == settled = "error" /\ Len(failed) = maxRetries

\* C1: generateLLMMetadata never ends by throwing: whatever the client did
\* on each attempt, a call that has ended has returned a PageMetadata from
\* one of its three return statements, and however retryWithBackoff ended
\* (a value or an error) one of the two continuations takes it up.
C1_NeverThrows ==
  /\ GenerateDone => outcome = "returned" /\ path \in {"model", "inner", "outer"}
  /\ (op = "generateLLMMetadata" /\ pc = "settled")
       => settled \in {"value", "error"} /\ outcome = "pending"

\* C1 witness: the call with empty url and content whose client answered
\* the JSON text null has ended
C1_Witness ==
  /\ GenerateDone /\ url = "" /\ content = ""
  /\ response.kind = "null" /\ outcome = "returned"

\* C2 as claimed: for a non-empty content every returned PageMetadata has a
\* non-empty title, description and keywords.
C2_AllFieldsNonEmpty ==
  (GenerateDone /\ content # "")
    => page.title # "" /\ page.description # "" /\ page.keywords # ""

\* C3: when the client fails on every attempt generateLLMMetadata has
\* invoked it exactly 3 times and returns the outer fallback: the url as
\* given, the trimmed text before the first period as title, the keywords
\* of extractKeywords and the formatted "Explore essential information
\* about" description, never the "Discover" one.
C3_OuterFallback ==
  (GenerateDone /\ AllAttemptsFailed)
    => /\ calls = 3
       /\ outcome = "returned"
       /\ page.url = url
       /\ page.title = Trim(MainTopic(content))
       /\ page.keywords = extractKeywords(content)
       /\ page.description = formatDescription(ExploreTemplate(MainTopic(content)))
       /\ StartsWith(page.description, "Explore essential information about")
       /\ ~StartsWith(page.description, "Discover")

C3_Witness ==
  /\ GenerateDone /\ AllAttemptsFailed /\ calls = 3
  /\ url = "http://x" /\ content = ExampleContent
  /\ page.title = "Healthy eating matters"

\* the text of an attempt that resolved is no JSON, or its JSON lacks a
\* truthy title, description or keywords
Malformed(r) ==
  \/ r.kind \in {"text", "null", "scalar"}
  \/ /\ r.kind = "object"
     /\ ~(Truthy(r.title) /\ Truthy(r.description) /\ Truthy(r.keywords))

NotRetried == settled = "value" /\ calls = Len(failed) + 1

InnerTitleAndKeywords ==
  /\ outcome = "returned"
  /\ page.url = url
  /\ page.title = Trim(MainTopic(content))
  /\ page.keywords = extractKeywords(content)

\* C4 as claimed: a malformed response is not retried and the description
\* returned begins with "Discover comprehensive insights about <lower-cased
\* mainTopic>."
C4_Original ==
  (GenerateDone /\ Malformed(response))
    => /\ NotRetried
       /\ InnerTitleAndKeywords
       /\ StartsWith(page.description,
                     "Discover comprehensive insights about "
                       \o toLowerCase(MainTopic(content)) \o ".")

\* C4 as amended: a malformed response is not retried (the client is not
\* invoked again once an attempt resolved) and generateLLMMetadata returns
\* the inner fallback, whose description is formatDescription of the
\* "Discover comprehensive insights about" template; for the content
\* "Healthy eating matters. It helps you." the title is "Healthy eating
\* matters" and the description begins with the template's first sentence.
C4_InnerFallback ==
  /\ (GenerateDone /\ Malformed(response))
       => /\ NotRetried
          /\ InnerTitleAndKeywords
          /\ page.description = formatDescription(DiscoverTemplate(MainTopic(content)))
          /\ StartsWith(page.description, "Discover comprehensive insights about")
          /\ content = ExampleContent
               => /\ page.title = "Healthy eating matters"
                  /\ StartsWith(page.description,
                                "Discover comprehensive insights about healthy eating matters.")
  /\ (op = "generateLLMMetadata" /\ settled = "value") => calls = Len(failed) + 1

C4_Witness ==
  /\ GenerateDone /\ content = ExampleContent /\ url = "http://x"
  /\ response.kind = "text" /\ response.text = "Sorry, no JSON."
  /\ Len(failed) = 1 /\ calls = 2
  /\ page.title = "Healthy eating matters"

\* C5: with maxRetries >= 1 the attempts run one after another: the k-th
\* failure is that of attempt k - 1; the first success ends the call with
\* no further invocation and no further sleep; a failure of an attempt
\* before the last is followed by one sleep, the first of baseDelay and
\* each next one twice the one before; the failure of the last attempt is
\* thrown as it is, with no sleep.  With maxRetries = 3 and baseDelay =
\* 1000 an operation that always fails is invoked 3 times, with sleeps of
\* 1000 and 2000.
C5_Backoff ==
  maxRetries >= 1
    => /\ \A k \in 1..Len(failed) : failed[k] = ClientError(k - 1)
       /\ calls = Len(failed) + (IF settled = "value" THEN 1 ELSE 0)
       /\ calls <= maxRetries
       /\ Len(sleeps) = Len(failed) - (IF settled = "error" THEN 1 ELSE 0)
       /\ \A k \in 1..Len(sleeps) :
            sleeps[k] = IF k = 1 THEN baseDelay ELSE 2 * sleeps[k - 1]
       /\ settled = "error"
            => /\ Len(failed) = maxRetries
               /\ error = failed[maxRetries]
       /\ (op = "retryWithBackoff" /\ pc = "done")
            => outcome = (IF settled = "value" THEN "returned" ELSE "threw")
       /\ (settled = "error" /\ maxRetries = 3 /\ baseDelay = 1000)
            => calls = 3 /\ sleeps = <<1000, 2000>>

C5_Witness ==
  /\ op = "retryWithBackoff" /\ pc = "done" /\ outcome = "threw"
  /\ maxRetries = 3 /\ baseDelay = 1000
  /\ calls = 3 /\ sleeps = <<1000, 2000>>
  /\ error = ClientError(2)

\* C6: analyzeContent never throws; when the client failed on all 3
\* attempts, or resolved without a generated text, it returns the five
\* fixed suggestions in their order; when an attempt resolved with a text
\* it returns the non-empty lines of that text in their order.
C6_Analyzer ==
  AnalyzeDone
    => /\ outcome = "returned"
       /\ (settled = "error" \/ response.kind = "missing")
            => /\ suggestions =
                    <<"Ensure your content includes relevant keywords.",
                      "Write a compelling meta description.",
                      "Use header tags (H1, H2, etc.) to structure your content.",
                      "Include internal and external links where appropriate.",
                      "Optimize your images with alt text and descriptive file names.">>
               /\ settled = "error" => calls = 3
       /\ (settled = "value" /\ response.kind = "text")
            => /\ \A k \in 1..Len(suggestions) :
                    /\ suggestions[k] # ""
                    /\ \A n \in 1..Len(suggestions[k]) : Char(suggestions[k], n) # "\n"
               /\ Concat(suggestions)
                    = Concat([n \in 1..Len(response.text) |->
                                IF Char(response.text, n) = "\n" THEN ""
                                ELSE Char(response.text, n)])
               /\ Len(suggestions)
                    = Cardinality({n \in 1..Len(response.text) :
                                     /\ Char(response.text, n) # "\n"
                                     /\ (n = 1 \/ Char(response.text, n - 1) = "\n")})
               /\ suggestions # FixedSuggestions
               /\ response.text = "Add keywords.\n\nUse header tags.\n"
                    => suggestions = <<"Add keywords.", "Use header tags.">>

C6_Witness ==
  /\ AnalyzeDone /\ content = ExampleContent
  /\ AllAttemptsFailed /\ calls = 3
  /\ Len(suggestions) = 5
  /\ suggestions[1] = "Ensure your content includes relevant keywords."

\* the words extractKeywords filters: the lower-cased content without its
\* non-word characters, split at whitespace
WordsOf(t) == SplitWhitespace(StripNonWord(toLowerCase(t)))

\* C7 as claimed: the keywords of "The quick brown fox jumps over the lazy
\* dog" are "quick, brown, fox, jumps, over".
C7_Original ==
  (op = "extractKeywords" /\ text = ExampleSentence)
    => out = <<"quick, brown, fox, jumps, over">>

\* C7 as amended: extractKeywords returns, joined by ", ", the first five
\* distinct words in first-seen order among the words longer than 3
\* characters that are no stop words; for "The quick brown fox jumps over
\* the lazy dog" that is "quick, brown, jumps, over, lazy" ("fox" has 3
\* characters and is discarded) and for the empty text the empty string.
C7_Keywords ==
  op = "extractKeywords"
    => LET words == WordsOf(text)
           kept == {k \in 1..Len(words) :
                      /\ Len(words[k]) > 3
                      /\ words[k] \notin commonWords
                      /\ \A j \in 1..(k - 1) : words[j] # words[k]}
           firstFive == {k \in kept : Cardinality({j \in kept : j <= k}) <= 5}
           order == SortedSeq(firstFive)
       IN  /\ Len(out) = 1
           /\ out[1] = Join([n \in 1..Len(order) |-> words[order[n]]], ", ")
           /\ text = ExampleSentence => out[1] = "quick, brown, jumps, over, lazy"
           /\ text = "" => out[1] = ""

C7_Witness ==
  /\ op = "extractKeywords" /\ text = ExampleSentence
  /\ out = <<"quick, brown, jumps, over, lazy">>

\* one or two sentences of words, each ending in a period, a single space
\* between the two
WellFormed(t) ==
  LET n == Len(t)
      periods == {k \in 1..n : Char(t, k) = "."}
      Letter(k) == InClass(t, k, UpperLetters \cup LowerLetters)
  IN  /\ n >= 2 /\ n \in periods /\ Letter(1)
      /\ Cardinality(periods) \in {1, 2}
      /\ \A k \in 1..n :
           \/ Letter(k)
           \/ Char(t, k) = " " /\ Letter(k + 1) /\ (Letter(k - 1) \/ k - 1 \in periods)
           \/ Char(t, k) = "." /\ Letter(k - 1)

EndsWithOnePeriod(t) ==
  /\ Len(t) >= 1 /\ Char(t, Len(t)) = "."
  /\ ~(Len(t) >= 2 /\ Char(t, Len(t) - 1) = ".")

\* C8 as claimed: for a text of one or two sentences that ends in a period,
\* formatDescription applied twice gives what it gives applied once, and
\* that ends with exactly one period.
C8_Idempotent ==
  (op = "formatDescription" /\ Len(out) = 2 /\ WellFormed(text))
    => out[2] = out[1] /\ EndsWithOnePeriod(out[1])

\* C9 as claimed: when all 3 attempts of generateLLMMetadata or
\* analyzeContent fail, the caller has been suspended for sleeps of 1000,
\* 2000 and 4000 ms, 7000 ms in all.
C9_Original ==
  (op \in {"generateLLMMetadata", "analyzeContent"} /\ AllAttemptsFailed)
    => sleeps = <<1000, 2000, 4000>> /\ SumSeq(sleeps) = 7000

\* C9 as amended: under the default schedule the backoff delay of a call of
\* generateLLMMetadata or analyzeContent is at most 3000 ms in all: a failed
\* attempt 0 is followed by a sleep of 1000 ms, a failed attempt 1 by one of
\* 2000 ms, and a failed attempt 2 by none.
C9_WorstCaseDelay ==
  op \in {"generateLLMMetadata", "analyzeContent"}
    => /\ SumSeq(sleeps) <= 3000
       /\ Len(failed) >= 1 => sleeps[1] = 1000
       /\ Len(failed) >= 2 => sleeps[2] = 2000
       /\ Len(failed) >= 3 => sleeps = <<1000, 2000>> /\ SumSeq(sleeps) = 3000
       /\ pc = "sleeping" => Len(failed) < 3

C9_Witness ==
  /\ AnalyzeDone /\ AllAttemptsFailed /\ Len(failed) = 3
  /\ SumSeq(sleeps) = 3000

\* C10 as claimed: for every maxRetries >= 0 retryWithBackoff ends with the
\* operation's value or the operation's own error, never with "Max retries
\* reached", and has invoked the operation at least once.
C10_Original ==
  (maxRetries >= 0 /\ settled # "pending")
    => /\ calls >= 1
       /\ settled = "error" => error.message # "Max retries reached"

\* C10 as amended: for every maxRetries >= 1 retryWithBackoff ends with the
\* operation's value or with the error of the operation's last attempt,
\* never with "Max retries reached", and has invoked the operation at least
\* once.
C10_NoGenericError ==
  (maxRetries >= 1 /\ settled # "pending")
    => /\ calls >= 1
       /\ settled = "error"
            => /\ error.message # "Max retries reached"
               /\ error = ClientError(maxRetries - 1)
       /\ settled = "value" => response \in Responses

C10_Witness ==
  /\ op = "retryWithBackoff" /\ pc = "done" /\ maxRetries = 1
  /\ outcome = "threw" /\ error = ClientError(0) /\ calls = 1

====
